---- MODULE Spec2Model ----
(***************************************************************************)
(* A model of sslang's two front-end components:                           *)
(*   - scope.Analyser  (src/scope/scope.go): the scope stack, symbol       *)
(*     definition and lookup, and the type-equivalence procedure;          *)
(*   - lexical.Lexer   (src/lexical/lexer.go): the tokenizer over a        *)
(*     bytes.Buffer, its identifier map and its constant table.            *)
(* The two components share no state; each has its own specification.      *)
(***************************************************************************)
EXTENDS Integers, Sequences, FiniteSets, TLC

(***************************************************************************)
(* Program constants                                                       *)
(***************************************************************************)
maxNestLevel == 64

KindVar == 0
KindParam == 1
KindFunction == 2
KindField == 3
KindArrayType == 4
KindStructType == 5
KindAliasType == 6
KindScalarType == 7
KindUniversal == 8
KindUndefined == -1

(***************************************************************************)
(* Bounds of the explored runs                                             *)
(***************************************************************************)
\* DefineSymbol calls in a run
MaxObjects == 3
\* EndBlock calls in a run
MaxCloses == 3
\* deepest level at which the driver defines symbols in a run; a run that
\* has defined a symbol nests at most one level deeper than this, a run
\* that has defined none nests to any depth
MaxDefLevel == 2
\* the interned name ids the driver passes
Names == {0, 1}

\* the nil *Object; objects are heap addresses 1, 2, ...
nil == 0
\* the result of an operation that panicked in the Go runtime
panic == -1

VARIABLES
  level,        \* Analyser.level
  symbolTable,  \* Analyser.symbolTable: [0 .. maxNestLevel-1 -> *Object]
  heap,         \* the Objects allocated by DefineSymbol: address -> Object
  ret,          \* the last call on the Analyser: its name, argument, result
  opens,        \* history: the number of NewBlock calls made
  closes,       \* history: the number of EndBlock calls made
  defLevel,     \* history: address -> the level DefineSymbol linked it at
  discarded     \* history: addresses whose level has been closed by EndBlock

scopeVars == <<level, symbolTable, heap, ret, opens, closes, defLevel, discarded>>

VARIABLES
  input,        \* the program bytes given to NewLexer
  lexer,        \* the Lexer: program, identifiers, constants, Line, SecondaryToken
  tokens,       \* Run's local slice of tokens
  pc,           \* where Run is: in its loop ("run") or "returned"
  runErr,       \* the error Run returned
  last,         \* the last NextToken call: what it returned, and what the
                \* nextToken call inside it returned and consumed
  idSeen,       \* history: the texts of the ID tokens lexed, in order
  history,      \* history: every NextToken call that began a token, with
                \* the SecondaryToken it left
  skipped       \* history: the newlines that stood in the whitespace in
                \* front of the NextToken calls made

lexVars == <<input, lexer, tokens, pc, runErr, last, idSeen, history, skipped>>

VARIABLES
  objs,         \* the Objects CheckTypes is given: address -> Object
  checked       \* the last CheckTypes call: its arguments and its result

typeVars == <<objs, checked>>

vars == <<scopeVars, lexVars, typeVars>>

(***************************************************************************)
(* scope.Analyser                                                          *)
(***************************************************************************)
\* Go's bounds check on symbolTable[i]
InRange(i) == i >= 0 /\ i < maxNestLevel

\* a Go runtime panic ends the run: the repository recovers nowhere
Panicked == ret.err # ""

Returned(op, arg, val) == [op |-> op, arg |-> arg, val |-> val, err |-> ""]

Panics(op, arg) ==
  [op |-> op, arg |-> arg, val |-> panic, err |-> "index out of range"]

\* the zero value of Analyser
InitScope ==
  /\ level = 0
  /\ symbolTable = [i \in 0 .. maxNestLevel - 1 |-> nil]
  /\ heap = <<>>
  /\ ret = Returned("new", nil, 0)
  /\ opens = 0
  /\ closes = 0
  /\ defLevel = <<>>
  /\ discarded = {}

\* NewBlock without the reset of the level it opens
NewBlockNoClear ==
  /\ ~Panicked
  /\ heap = <<>> \/ level <= MaxDefLevel
  /\ level' = level + 1
  /\ opens' = opens + 1
  /\ ret' = IF InRange(level + 1) THEN Returned("NewBlock", nil, level + 1)
                                  ELSE Panics("NewBlock", nil)
  /\ UNCHANGED <<symbolTable, heap, closes, defLevel, discarded, lexVars, typeVars>>

\* a.level++ ; a.symbolTable[a.level] = nil ; return a.level
\* The increment takes effect before the indexing can panic.
NewBlock ==
  /\ ~Panicked
  /\ heap = <<>> \/ level <= MaxDefLevel
  /\ level' = level + 1
  /\ opens' = opens + 1
  /\ IF InRange(level + 1)
       THEN /\ symbolTable' = [symbolTable EXCEPT ![level + 1] = nil]
            /\ ret' = Returned("NewBlock", nil, level + 1)
       ELSE /\ symbolTable' = symbolTable
            /\ ret' = Panics("NewBlock", nil)
  /\ UNCHANGED <<heap, closes, defLevel, discarded, lexVars, typeVars>>

\* EndBlock that returns the level without popping it
EndBlockNoPop ==
  /\ ~Panicked
  /\ closes < MaxCloses
  /\ ret' = Returned("EndBlock", nil, level)
  /\ closes' = closes + 1
  /\ discarded' = discarded \cup {o \in 1 .. Len(heap) : defLevel[o] = level}
  /\ UNCHANGED <<level, symbolTable, heap, opens, defLevel, lexVars, typeVars>>

\* a.level-- ; return a.level
EndBlock ==
  /\ ~Panicked
  /\ closes < MaxCloses
  /\ level' = level - 1
  /\ ret' = Returned("EndBlock", nil, level - 1)
  /\ closes' = closes + 1
  /\ discarded' = discarded \cup {o \in 1 .. Len(heap) : defLevel[o] = level}
  /\ UNCHANGED <<symbolTable, heap, opens, defLevel, lexVars, typeVars>>

\* obj := &Object{Name: name, Kind: KindUndefined, Next: symbolTable[level]}
\* symbolTable[level] = obj ; return obj
DefineSymbol(name) ==
  /\ ~Panicked
  /\ IF InRange(level)
       THEN /\ Len(heap) < MaxObjects
            /\ level <= MaxDefLevel
            /\ heap' = Append(heap, [Name |-> name, Kind |-> KindUndefined,
                                     Next |-> symbolTable[level]])
            /\ symbolTable' = [symbolTable EXCEPT ![level] = Len(heap) + 1]
            /\ defLevel' = Append(defLevel, level)
            /\ ret' = Returned("DefineSymbol", name, Len(heap) + 1)
       ELSE \* the new Object is never linked: it is garbage
            /\ ret' = Panics("DefineSymbol", name)
            /\ UNCHANGED <<heap, symbolTable, defLevel>>
  /\ UNCHANGED <<level, opens, closes, discarded, lexVars, typeVars>>

\* the inner loop of both searches: walk the chain from obj
RECURSIVE SearchChain(_, _)
SearchChain(obj, name) ==
  IF obj = nil THEN nil
  ELSE IF heap[obj].Name = name THEN obj
  ELSE SearchChain(heap[obj].Next, name)

SearchLocalSymbol(name) ==
  IF InRange(level) THEN SearchChain(symbolTable[level], name) ELSE panic

\* for i := a.level - 1; i >= 0; i--
RECURSIVE SearchLevels(_, _)
SearchLevels(i, name) ==
  IF i < 0 THEN nil
  ELSE IF ~InRange(i) THEN panic
  ELSE IF SearchChain(symbolTable[i], name) # nil
         THEN SearchChain(symbolTable[i], name)
  ELSE SearchLevels(i - 1, name)

\* the search of the enclosing levels begun at the current level
SearchGlobalFromCurrent(name) == SearchLevels(level, name)

SearchGlobalSymbol(name) == SearchLevels(level - 1, name)

SearchLocal(name) ==
  /\ ~Panicked
  /\ ret' = IF SearchLocalSymbol(name) = panic
              THEN Panics("SearchLocalSymbol", name)
              ELSE Returned("SearchLocalSymbol", name, SearchLocalSymbol(name))
  /\ UNCHANGED <<level, symbolTable, heap, opens, closes, defLevel, discarded, lexVars, typeVars>>

SearchGlobal(name) ==
  /\ ~Panicked
  /\ ret' = IF SearchGlobalSymbol(name) = panic
              THEN Panics("SearchGlobalSymbol", name)
              ELSE Returned("SearchGlobalSymbol", name, SearchGlobalSymbol(name))
  /\ UNCHANGED <<level, symbolTable, heap, opens, closes, defLevel, discarded, lexVars, typeVars>>

(***************************************************************************)
(* bytes.Buffer, as the Lexer uses it.  Every rune of the alphabet is one  *)
(* byte wide, so a successful ReadRune leaves lastRead = opReadRune1.      *)
(***************************************************************************)
opInvalid == 0
opReadRune1 == 1

NewBuffer(bytes) == [buf |-> bytes, off |-> 0, lastRead |-> opInvalid]

\* the one element of a singleton set; Only({e : x \in {v}}) is e with x
\* standing for the value v
Only(S) == CHOOSE x \in S : TRUE

\* the runes not yet read
Unread(b) == Len(b.buf) - b.off

\* an empty buffer is Reset and io.EOF returned
ReadRune(b) ==
  IF Len(b.buf) <= b.off
    THEN [r |-> "", err |-> "EOF", b |-> NewBuffer(<<>>)]
    ELSE [r |-> b.buf[b.off + 1], err |-> "",
          b |-> [b EXCEPT !.off = @ + 1, !.lastRead = opReadRune1]]

\* fails unless the previous operation was a successful ReadRune
UnreadRune(b) ==
  IF b.lastRead <= opInvalid
    THEN [err |-> "UnreadRune: previous operation was not a successful ReadRune",
          b |-> b]
    ELSE [err |-> "",
          b |-> [b EXCEPT !.off = IF @ >= b.lastRead THEN @ - b.lastRead ELSE @,
                          !.lastRead = opInvalid]]

(***************************************************************************)
(* lexical.Lexer                                                           *)
(***************************************************************************)
\* the runes of the explored programs, by unicode class
Letters == {"v", "a", "r"}
Digits == {"1"}
Spaces == {" ", "\n"}
Alphabet == Letters \cup Digits \cup Spaces \cup {"_", "\"", "'", "&", "|", "="}

\* longest explored program
MaxLen == 4

\* the programs of at most n runes
Programs(n) == UNION {[1 .. k -> Alphabet] : k \in 0 .. n}

isAlpha(r) == r \in Letters
isDigit(r) == r \in Digits
isAlphaNumeric(r) == isAlpha(r) \/ isDigit(r)
IsSpace(r) == r \in Spaces

\* the criteria nextToken hands to parseWord, as the sets they accept
WordRunes == {r \in Alphabet : isAlphaNumeric(r) \/ r = "_"}
DigitRunes == {r \in Alphabet : isDigit(r)}
StringRunes == {r \in Alphabet : r # "\""}

\* the reserved words the tests show: "var", "integer", "function"
ReservedWordTokens ==
  (<<"v", "a", "r">> :> "Var")
  @@ (<<"i", "n", "t", "e", "g", "e", "r">> :> "Integer")
  @@ (<<"f", "u", "n", "c", "t", "i", "o", "n">> :> "Function")

\* the int -1 that nextToken returns next to an error
NoToken == "-1"

\* case ':' ... case ')' of the switch
SingleTokens ==
  (":" :> "Colon") @@ (";" :> "Semicolon") @@ ("," :> "Comma")
  @@ ("*" :> "Times") @@ ("/" :> "Divide") @@ ("." :> "Dot")
  @@ ("[" :> "LeftSquare") @@ ("]" :> "RightSquare")
  @@ ("{" :> "LeftBraces") @@ ("}" :> "RightBraces")
  @@ ("(" :> "LeftParenthesis") @@ (")" :> "RightParenthesis")

\* case '&', case '|': the rune that must follow, and the token
PairTokens ==
  ("&" :> "And") @@ ("|" :> "Or")

\* case '=' ... case '-': the rune that completes the compound form, the
\* single-character token and the compound token
LookaheadTokens ==
  ("=" :> <<"=", "Equals", "EqualEqual">>)
  @@ ("<" :> <<"=", "LessThan", "LessOrEqual">>)
  @@ (">" :> <<"=", "GreaterThan", "GreaterOrEqual">>)
  @@ ("!" :> <<"=", "Not", "NotEqual">>)
  @@ ("+" :> <<"+", "Plus", "PlusPlus">>)
  @@ ("-" :> <<"-", "Minus", "MinusMinus">>)

NewLexer(program) ==
  [program |-> NewBuffer(program),
   identifiers |-> [s \in {} |-> 0],
   constants |-> <<>>,
   Line |-> 0,
   SecondaryToken |-> 0]

\* what nextToken returns, and the Lexer it leaves; text is the word an
\* identifier or keyword token was made of
Out(L, token, err, text) ==
  [token |-> token, err |-> err, lexer |-> L, text |-> text]

\* the loop of parseWord: nextRune is the rune in hand, sb the runes kept
RECURSIVE parseLoop(_, _, _, _)
parseLoop(b, nextRune, sb, criteria) ==
  IF nextRune \in criteria
    THEN Only({IF rd.err # ""
                 THEN [text |-> Append(sb, nextRune), err |-> "", b |-> rd.b]
                 ELSE parseLoop(rd.b, rd.r, Append(sb, nextRune), criteria)
               : rd \in {ReadRune(b)}})
    ELSE [text |-> sb, err |-> "", b |-> b]

\* after the UnreadRune: read the rune back and scan
parseFrom(b, criteria) ==
  Only({IF rd.err # "" THEN [text |-> <<>>, err |-> rd.err, b |-> rd.b]
        ELSE parseLoop(rd.b, rd.r, <<>>, criteria)
        : rd \in {ReadRune(b)}})

parseWord(b, criteria) ==
  Only({IF un.err # "" THEN [text |-> <<>>, err |-> un.err, b |-> un.b]
        ELSE parseFrom(un.b, criteria)
        : un \in {UnreadRune(b)}})

\* a repeat of a seen text reassigned the next free id
registerIdentifierReassign(L, s) ==
  [L EXCEPT !.identifiers = (s :> Cardinality(DOMAIN L.identifiers)) @@ @,
            !.SecondaryToken = Cardinality(DOMAIN L.identifiers)]

registerIdentifier(L, s) ==
  IF s \in DOMAIN L.identifiers
    THEN [L EXCEPT !.SecondaryToken = L.identifiers[s]]
    ELSE [L EXCEPT !.identifiers = @ @@ (s :> Cardinality(DOMAIN @)),
                   !.SecondaryToken = Cardinality(DOMAIN L.identifiers)]

\* the index returned counts the older constants of the same type only
addConstantPerType(L, type, value) ==
  [L EXCEPT !.constants = Append(@, [Type |-> type, Value |-> value]),
            !.SecondaryToken =
              Cardinality({i \in DOMAIN L.constants : L.constants[i].Type = type})]

\* the new constant put in front of the older ones
addConstantInFront(L, type, value) ==
  [L EXCEPT !.constants = <<[Type |-> type, Value |-> value]>> \o @,
            !.SecondaryToken = 0]

\* addRuneConstant, addStringConstant, addNumeralConstant: append to the
\* one constants slice and return the new entry's index
addConstant(L, type, value) ==
  [L EXCEPT !.constants = Append(@, [Type |-> type, Value |-> value]),
            !.SecondaryToken = Len(L.constants)]

\* GetRuneConstant, GetStringConstant, GetNumeralConstant: constants[n]
\* panics out of range; the assertion Value.(T) gives T's zero value when
\* the entry holds another type
GetRuneConstant(L, n) ==
  IF n + 1 \notin DOMAIN L.constants THEN panic
  ELSE IF L.constants[n + 1].Type = "Character" THEN L.constants[n + 1].Value
  ELSE ""

GetStringConstant(L, n) ==
  IF n + 1 \notin DOMAIN L.constants THEN panic
  ELSE IF L.constants[n + 1].Type = "String" THEN L.constants[n + 1].Value
  ELSE <<>>

GetNumeralConstant(L, n) ==
  IF n + 1 \notin DOMAIN L.constants THEN panic
  ELSE IF L.constants[n + 1].Type = "Numeral" THEN L.constants[n + 1].Value
  ELSE 0

DigitValue(r) ==
  CASE r = "0" -> 0 [] r = "1" -> 1 [] r = "2" -> 2 [] r = "3" -> 3
    [] r = "4" -> 4 [] r = "5" -> 5 [] r = "6" -> 6 [] r = "7" -> 7
    [] r = "8" -> 8 [] r = "9" -> 9

\* strconv.Atoi on a run of digits short enough not to overflow
RECURSIVE Atoi(_)
Atoi(text) ==
  IF text = <<>> THEN 0
  ELSE 10 * Atoi(SubSeq(text, 1, Len(text) - 1)) + DigitValue(text[Len(text)])

\* the whitespace loop: the first rune that is no space, or the read error
RECURSIVE skipSpace(_, _)
skipSpace(b, line) ==
  Only({IF rd.err # ""
          THEN [r |-> "", err |-> rd.err, b |-> rd.b, line |-> line]
        ELSE IF ~IsSpace(rd.r)
          THEN [r |-> rd.r, err |-> "", b |-> rd.b, line |-> line]
        ELSE skipSpace(rd.b, IF rd.r = "\n" THEN line + 1 ELSE line)
        : rd \in {ReadRune(b)}})

\* the identifier branch without its final buf.UnreadRune()
identifierBranchNoUnread(L) ==
  Only({IF w.err # "" THEN Out([L EXCEPT !.program = w.b], NoToken, w.err, <<>>)
        ELSE IF w.text \in DOMAIN ReservedWordTokens
          THEN Out([L EXCEPT !.program = w.b],
                   ReservedWordTokens[w.text], "", w.text)
        ELSE Out(registerIdentifier([L EXCEPT !.program = w.b], w.text),
                 "ID", "", w.text)
        : w \in {parseWord(L.program, WordRunes)}})

\* if isAlpha(nextRune): the word is a reserved word or is registered; the
\* final UnreadRune's error is dropped
identifierBranch(L) ==
  Only({IF w.err # "" THEN Out([L EXCEPT !.program = w.b], NoToken, w.err, <<>>)
        ELSE IF w.text \in DOMAIN ReservedWordTokens
          THEN Out([L EXCEPT !.program = UnreadRune(w.b).b],
                   ReservedWordTokens[w.text], "", w.text)
        ELSE Out(registerIdentifier([L EXCEPT !.program = UnreadRune(w.b).b],
                                    w.text),
                 "ID", "", w.text)
        : w \in {parseWord(L.program, WordRunes)}})

\* else if isDigit(nextRune)
numeralBranch(L) ==
  Only({IF w.err # "" THEN Out([L EXCEPT !.program = w.b], NoToken, w.err, <<>>)
        ELSE Out(addConstant([L EXCEPT !.program = UnreadRune(w.b).b],
                             "Numeral", Atoi(w.text)),
                 "Numeral", "", <<>>)
        : w \in {parseWord(L.program, DigitRunes)}})

\* else if nextRune == '"': one rune is read and its error dropped, then
\* parseWord unreads it and scans to the next '"' or to the end of input
stringBranch(L) ==
  Only({IF w.err # "" THEN Out([L EXCEPT !.program = w.b], NoToken, w.err, <<>>)
        ELSE Out(addConstant([L EXCEPT !.program = w.b], "String", w.text),
                 "Stringval", "", <<>>)
        : w \in {parseWord(ReadRune(L.program).b, StringRunes)}})

\* case '\'', after runeCtt was read
closingQuote(L, runeCtt) ==
  Only({IF expectedQuotes.err # ""
          THEN Out([L EXCEPT !.program = expectedQuotes.b], NoToken,
                   expectedQuotes.err, <<>>)
        ELSE IF expectedQuotes.r # "'"
          THEN Out([L EXCEPT !.program = expectedQuotes.b], NoToken,
                   "Expected quotes", <<>>)
        ELSE Out(addConstant([L EXCEPT !.program = expectedQuotes.b],
                             "Character", runeCtt.r),
                 "Character", "", <<>>)
        : expectedQuotes \in {ReadRune(runeCtt.b)}})

\* case '\''
characterCase(L) ==
  Only({IF runeCtt.err # ""
          THEN Out([L EXCEPT !.program = runeCtt.b], NoToken, runeCtt.err, <<>>)
        ELSE closingQuote(L, runeCtt)
        : runeCtt \in {ReadRune(L.program)}})

\* case '&', case '|'
pairCase(L, r) ==
  Only({IF nextRune2.err # ""
          THEN Out([L EXCEPT !.program = nextRune2.b], NoToken, nextRune2.err, <<>>)
        ELSE IF nextRune2.r # r
          THEN Out([L EXCEPT !.program = nextRune2.b], NoToken,
                   "Invalid character", <<>>)
        ELSE Out([L EXCEPT !.program = nextRune2.b], PairTokens[r], "", <<>>)
        : nextRune2 \in {ReadRune(L.program)}})

\* the lookahead cases without the buf.UnreadRune() of the rune that does
\* not complete the compound form
lookaheadCaseNoPushback(L, r) ==
  Only({IF nextRune2.err # ""
          THEN Out([L EXCEPT !.program = nextRune2.b],
                   LookaheadTokens[r][2], "", <<>>)
        ELSE IF nextRune2.r # LookaheadTokens[r][1]
          THEN Out([L EXCEPT !.program = nextRune2.b],
                   LookaheadTokens[r][2], "", <<>>)
        ELSE Out([L EXCEPT !.program = nextRune2.b],
                 LookaheadTokens[r][3], "", <<>>)
        : nextRune2 \in {ReadRune(L.program)}})

\* case '=', '<', '>', '!', '+', '-'
lookaheadCase(L, r) ==
  Only({IF nextRune2.err # ""
          THEN Out([L EXCEPT !.program = nextRune2.b],
                   LookaheadTokens[r][2], "", <<>>)
        ELSE IF nextRune2.r # LookaheadTokens[r][1]
          THEN IF UnreadRune(nextRune2.b).err # ""
                 THEN Out([L EXCEPT !.program = UnreadRune(nextRune2.b).b],
                          NoToken, UnreadRune(nextRune2.b).err, <<>>)
                 ELSE Out([L EXCEPT !.program = UnreadRune(nextRune2.b).b],
                          LookaheadTokens[r][2], "", <<>>)
        ELSE Out([L EXCEPT !.program = nextRune2.b],
                 LookaheadTokens[r][3], "", <<>>)
        : nextRune2 \in {ReadRune(L.program)}})

\* the branches of nextToken on the first rune of the token
classify(L, nextRune) ==
  IF isAlpha(nextRune) THEN identifierBranch(L)
  ELSE IF isDigit(nextRune) THEN numeralBranch(L)
  ELSE IF nextRune = "\"" THEN stringBranch(L)
  ELSE IF nextRune \in DOMAIN SingleTokens
    THEN Out(L, SingleTokens[nextRune], "", <<>>)
  ELSE IF nextRune = "'" THEN characterCase(L)
  ELSE IF nextRune \in DOMAIN PairTokens THEN pairCase(L, nextRune)
  ELSE IF nextRune \in DOMAIN LookaheadTokens THEN lookaheadCase(L, nextRune)
  ELSE Out(L, "UNKNOWN", "", <<>>)

\* nextToken(a.program), after the whitespace loop returned sk
afterSpace(L, sk) ==
  IF sk.err # ""
    THEN [token |-> NoToken, err |-> sk.err, text |-> <<>>,
          lexer |-> [L EXCEPT !.program = sk.b, !.Line = sk.line],
          started |-> FALSE, start |-> 0]
    ELSE Only({[token |-> res.token, err |-> res.err, text |-> res.text,
                lexer |-> res.lexer, started |-> TRUE, start |-> sk.b.off]
               : res \in {classify([L EXCEPT !.program = sk.b, !.Line = sk.line],
                                   sk.r)}})

\* nextToken(a.program).  started: the whitespace loop found the first rune
\* of a token; start: that rune's place in the program (1-based)
nextToken(L) ==
  Only({afterSpace(L, sk) : sk \in {skipSpace(L.program, L.Line)}})

\* NextToken without the translation of io.EOF into the EOF token
NextTokenKeepsEOFError(L) ==
  Only({[token |-> nt.token,
         err |-> "",
         lexErr |-> nt.err,
         lexer |-> nt.lexer,
         text |-> nt.text,
         started |-> nt.started,
         start |-> nt.start]
        : nt \in {nextToken(L)}})

\* NextToken: io.EOF becomes the EOF token; the error returned is always nil.
\* lexErr keeps the error nextToken returned.
NextToken(L) ==
  Only({[token |-> IF nt.err = "EOF" THEN "EOF" ELSE nt.token,
         err |-> "",
         lexErr |-> nt.err,
         lexer |-> nt.lexer,
         text |-> nt.text,
         started |-> nt.started,
         start |-> nt.start]
        : nt \in {nextToken(L)}})

\* the record kept of a NextToken call
Called(nt) ==
  [token |-> nt.token, err |-> nt.err, lexErr |-> nt.lexErr, text |-> nt.text,
   started |-> nt.started, start |-> nt.start]

NoCall ==
  [token |-> NoToken, err |-> "", lexErr |-> "", text |-> <<>>,
   started |-> FALSE, start |-> 0]

\* the newlines in the run of whitespace at the front of the unread runes:
\* the ones the whitespace loop of the next nextToken call passes
RECURSIVE NewlinesIn(_, _)
NewlinesIn(buf, i) ==
  IF i > Len(buf) \/ ~IsSpace(buf[i]) THEN 0
  ELSE (IF buf[i] = "\n" THEN 1 ELSE 0) + NewlinesIn(buf, i + 1)

NewlinesAhead(b) == NewlinesIn(b.buf, b.off + 1)

\* lexer := NewLexer(program); lexer.Run() has entered its loop
InitLexerOn(program) ==
  /\ input = program
  /\ lexer = NewLexer(program)
  /\ tokens = <<>>
  /\ pc = "run"
  /\ runErr = ""
  /\ last = NoCall
  /\ idSeen = <<>>
  /\ history = <<>>
  /\ skipped = 0

InitLexer == \E program \in Programs(MaxLen) : InitLexerOn(program)

\* one iteration of Run's loop, and Run's return when the loop ends
RunStep ==
  /\ pc = "run"
  /\ \E nt \in {NextToken(lexer)} :
        /\ lexer' = nt.lexer
        /\ last' = Called(nt)
        /\ idSeen' = IF nt.token = "ID" THEN Append(idSeen, nt.text) ELSE idSeen
        /\ history' = IF nt.started
                         THEN Append(history,
                                     [token |-> nt.token, text |-> nt.text,
                                      start |-> nt.start,
                                      index |-> nt.lexer.SecondaryToken])
                         ELSE history
        /\ skipped' = skipped + NewlinesAhead(lexer.program)
        /\ IF nt.err # "" /\ nt.err # "EOF"
             THEN /\ tokens' = <<>>
                  /\ runErr' = nt.err
                  /\ pc' = "returned"
             ELSE /\ tokens' = Append(tokens, nt.token)
                  /\ runErr' = ""
                  /\ pc' = IF nt.token = "EOF" THEN "returned" ELSE "run"
  /\ UNCHANGED <<input, scopeVars, typeVars>>

(***************************************************************************)
(* Type objects and Analyser.CheckTypes                                    *)
(***************************************************************************)
\* the addresses of the builtin objects (pBoolObj and pStringObj are two
\* more scalars like pIntObj and pCharObj)
pUniversalObj == 1
pIntObj == 2
pCharObj == 3

\* Object.T: nil, Alias{BaseType}, Array{ElemType, NumElements} or
\* Struct{Fields}; ref is the BaseType, ElemType or Fields pointer
NoType == [tag |-> "nil", ref |-> nil, NumElements |-> 0]
Alias(base) == [tag |-> "Alias", ref |-> base, NumElements |-> 0]
Array(elem, n) == [tag |-> "Array", ref |-> elem, NumElements |-> n]
Struct(fields) == [tag |-> "Struct", ref |-> fields, NumElements |-> 0]

\* universalObj, intObj, charObj: each Object{-1, nil, KindScalarType, nil}
Builtins ==
  <<[Kind |-> KindScalarType, T |-> NoType],
    [Kind |-> KindScalarType, T |-> NoType],
    [Kind |-> KindScalarType, T |-> NoType]>>

\* objects built on top of the builtins
MaxTypes == 2
\* the element counts of the arrays built
ElementCounts == {1, 2}

\* two field chains of one field each, identical in content, for the
\* Struct.Fields pointers to share or not
FieldChains ==
  <<[Kind |-> KindField, T |-> NoType],
    [Kind |-> KindField, T |-> NoType]>>

\* the objects of g a BaseType or ElemType pointer can name: all but fields
Referable(g) == {j \in 1 .. Len(g) : g[j].Kind # KindField}

\* the objects a driver can build next in graph g: an alias or an array of
\* any object built before, a struct with no field or with one of the field
\* chains, a variable, an object of kind universal.  Every reference points
\* to an older object, so the graph is acyclic.
NextObjects(g) ==
  {[Kind |-> KindAliasType, T |-> Alias(b)] : b \in Referable(g)}
  \cup {[Kind |-> KindArrayType, T |-> Array(e, n)] :
          e \in Referable(g), n \in ElementCounts}
  \cup {[Kind |-> KindStructType, T |-> Struct(f)] :
          f \in {nil} \cup {j \in 1 .. Len(g) : g[j].Kind = KindField}}
  \cup {[Kind |-> k, T |-> NoType] : k \in {KindVar, KindUniversal}}

RECURSIVE TypeGraphs(_)
TypeGraphs(n) ==
  IF n = 0 THEN {Builtins \o FieldChains}
  ELSE UNION {{Append(g, o) : o \in NextObjects(g)} : g \in TypeGraphs(n - 1)}

NotChecked == [p1 |-> nil, p2 |-> nil, result |-> "none"]

InitTypesOn(g) ==
  /\ objs = g
  /\ checked = NotChecked

InitTypes == \E g \in TypeGraphs(MaxTypes) : InitTypesOn(g)

RECURSIVE CheckTypes(_, _)

\* CheckTypes without the branch that unwraps an alias on the right
CheckTypesLeftAliasOnly(p1, p2) ==
  IF p1 = p2 THEN "true"
  ELSE IF p1 = pUniversalObj \/ p2 = pUniversalObj THEN "true"
  ELSE IF objs[p1].Kind = KindUniversal \/ objs[p2].Kind = KindUniversal
    THEN "true"
  ELSE IF objs[p1].Kind = KindAliasType /\ objs[p2].Kind # KindAliasType
    THEN CheckTypes(objs[p1].T.ref, p2)
  ELSE IF objs[p1].Kind = KindAliasType /\ objs[p2].Kind = KindAliasType
    THEN CheckTypes(objs[p1].T.ref, objs[p2].T.ref)
  ELSE "false"

\* CheckTypes with the struct branch comparing the Fields pointers
CheckTypesStructByFields(p1, p2) ==
  IF p1 = p2 THEN "true"
  ELSE IF p1 = pUniversalObj \/ p2 = pUniversalObj THEN "true"
  ELSE IF objs[p1].Kind = KindUniversal \/ objs[p2].Kind = KindUniversal
    THEN "true"
  ELSE IF objs[p1].Kind = KindStructType /\ objs[p2].Kind = KindStructType
    THEN IF objs[p1].T.ref = objs[p2].T.ref THEN "true" ELSE "false"
  ELSE "false"

\* The result is "true", "false", or "panic" where Go panics: a nil pointer
\* dereferenced, or a type assertion p.T.(X) on a T that is no X.
CheckTypes(p1, p2) ==
  IF p1 = p2 THEN "true"
  ELSE IF p1 = pUniversalObj \/ p2 = pUniversalObj THEN "true"
  ELSE IF p1 = nil \/ p2 = nil THEN "panic"
  ELSE IF objs[p1].Kind = KindUniversal \/ objs[p2].Kind = KindUniversal
    THEN "true"
  ELSE IF objs[p1].Kind = KindAliasType /\ objs[p2].Kind # KindAliasType
    THEN IF objs[p1].T.tag # "Alias" THEN "panic"
         ELSE CheckTypes(objs[p1].T.ref, p2)
  ELSE IF objs[p1].Kind # KindAliasType /\ objs[p2].Kind = KindAliasType
    THEN IF objs[p2].T.tag # "Alias" THEN "panic"
         ELSE CheckTypes(p1, objs[p2].T.ref)
  ELSE IF objs[p1].Kind = objs[p1].Kind   \* sic: p1.Kind == p1.Kind
    THEN IF objs[p1].Kind = KindAliasType
           THEN IF objs[p1].T.tag # "Alias" \/ objs[p2].T.tag # "Alias"
                  THEN "panic"
                  ELSE CheckTypes(objs[p1].T.ref, objs[p2].T.ref)
         ELSE IF objs[p1].Kind = KindArrayType
           THEN IF objs[p1].T.tag # "Array" \/ objs[p2].T.tag # "Array"
                  THEN "panic"
                ELSE IF objs[p1].T.NumElements = objs[p2].T.NumElements
                  THEN CheckTypes(objs[p1].T.ref, objs[p2].T.ref)
                ELSE "false"
         ELSE IF objs[p1].Kind = KindStructType
           THEN IF objs[p1].T.tag # "Struct" \/ objs[p2].T.tag # "Struct"
                  THEN "panic"
                  ELSE "false"   \* if f1 != nil && f2 != nil { TODO }
         ELSE "false"
  ELSE "false"

\* a call a.CheckTypes(p1, p2) on two objects of the graph.  CheckTypes
\* keeps no state, so a behaviour makes one call: every call on every graph
\* is the single step of some behaviour.
CheckTypesCall(p1, p2) ==
  /\ checked = NotChecked
  /\ checked' = [p1 |-> p1, p2 |-> p2, result |-> CheckTypes(p1, p2)]
  /\ UNCHANGED <<objs, scopeVars, lexVars>>

(***************************************************************************)
(* Specifications.  The scope stack, the Lexer and CheckTypes share no      *)
(* state: each is explored with the others left as constructed.            *)
(***************************************************************************)
\* any sequence of calls on an Analyser
NextScope ==
  \/ NewBlock
  \/ EndBlock
  \/ \E n \in Names : DefineSymbol(n)
  \/ \E n \in Names : SearchLocal(n)
  \/ \E n \in Names : SearchGlobal(n)

\* a new Analyser
InitAnalyser == InitScope /\ InitLexerOn(<<>>) /\ InitTypesOn(Builtins)

SpecScope == InitAnalyser /\ [][NextScope]_vars

\* sequences of calls that never nest deeper than the maximum depth and never
\* close more blocks than were opened
NestedNewBlock == level + 1 < maxNestLevel /\ NewBlock

NestedEndBlock == level > 0 /\ EndBlock

NextNested ==
  \/ NestedNewBlock
  \/ NestedEndBlock
  \/ \E n \in Names : DefineSymbol(n)
  \/ \E n \in Names : SearchLocal(n)
  \/ \E n \in Names : SearchGlobal(n)

SpecNested == InitAnalyser /\ [][NextNested]_vars

\* Run on any program of the alphabet
NextLexer == RunStep

\* Run is called on a new Lexer
InitRun == InitLexer /\ InitScope /\ InitTypesOn(Builtins)

SpecLexer == InitRun /\ [][NextLexer]_vars

\* Run is sequential code: an iteration that can run does run
SpecLexerFair == SpecLexer /\ WF_vars(NextLexer)

\* Run on the programs written with the six operators of the lookahead
\* cases, a newline and a letter
OperatorAlphabet == DOMAIN LookaheadTokens \cup {"\n", "a"}

OperatorPrograms(n) == UNION {[1 .. k -> OperatorAlphabet] : k \in 0 .. n}

InitOperators ==
  /\ \E program \in OperatorPrograms(MaxLen) : InitLexerOn(program)
  /\ InitScope
  /\ InitTypesOn(Builtins)

SpecOperators == InitOperators /\ [][NextLexer]_vars
\* CheckTypes called on any two objects of any type graph
InitChecker == InitTypes /\ InitScope /\ InitLexerOn(<<>>)

NextTypes == \E p1, p2 \in 1 .. Len(objs) : CheckTypesCall(p1, p2)

SpecTypes == InitChecker /\ [][NextTypes]_vars

(***************************************************************************)
(* Properties of the scope stack                                           *)
(***************************************************************************)
\* C1: in every state reachable by any sequence of NewBlock, EndBlock,
\* DefineSymbol and search calls, 0 <= level < maxNestLevel.
LevelWithinBounds == level >= 0 /\ level < maxNestLevel

\* C2: an EndBlock with no block open, and a NewBlock that would exceed the
\* maximum depth, report an error and leave the level cursor and every
\* level's chain as they were.
MisuseRejected ==
  [][/\ (closes' = closes + 1 /\ level <= 0) =>
          /\ ret'.err = "underflow"
          /\ level' = level
          /\ symbolTable' = symbolTable
     /\ (opens' = opens + 1 /\ level + 1 >= maxNestLevel) =>
          /\ ret'.err = "overflow"
          /\ level' = level
          /\ symbolTable' = symbolTable]_vars

\* the objects whose level has not been closed since they were defined
Live == (1 .. Len(heap)) \ discarded

\* C3: in well-nested runs, a name defined in a level that is still open is
\* found by SearchLocalSymbol while that level is current and by
\* SearchGlobalSymbol while it strictly encloses the current one; an object
\* whose level has been closed is returned by neither search ever again.
OpenLevelsReachableClosedNot ==
  /\ \A o \in Live :
       /\ defLevel[o] = level =>
            /\ SearchLocalSymbol(heap[o].Name) \in Live
            /\ heap[SearchLocalSymbol(heap[o].Name)].Name = heap[o].Name
       /\ defLevel[o] < level =>
            /\ SearchGlobalSymbol(heap[o].Name) \in Live
            /\ heap[SearchGlobalSymbol(heap[o].Name)].Name = heap[o].Name
  /\ \A n \in Names :
       /\ SearchLocalSymbol(n) \notin discarded
       /\ SearchGlobalSymbol(n) \notin discarded
  /\ ret.op \in {"SearchLocalSymbol", "SearchGlobalSymbol"} =>
       ret.val \notin discarded

\* a block was closed and another opened at the same depth; a search for the
\* closed block's name misses there, and an enclosing level's symbol is found
ReopenedLevelHidesOldSymbol ==
  \E o \in discarded, p \in Live :
    /\ defLevel[o] = level
    /\ defLevel[p] < level
    /\ ret = Returned("SearchLocalSymbol", heap[o].Name, nil)
    /\ SearchGlobalSymbol(heap[p].Name) = p

\* C4: in well-nested runs the level cursor, and the value NewBlock or
\* EndBlock last returned, is the number of NewBlock calls minus the number
\* of EndBlock calls; DefineSymbol and the searches leave the cursor alone.
LevelIsOpensMinusCloses ==
  /\ level = opens - closes
  /\ ret.op \in {"NewBlock", "EndBlock"} => ret.val = opens - closes

\* the last call was an EndBlock that returned to an enclosing block
ClosedBackToEnclosing ==
  /\ ret.op = "EndBlock"
  /\ opens = 3
  /\ closes = 2
  /\ heap # <<>>

(***************************************************************************)
(* Properties of the Lexer                                                 *)
(***************************************************************************)
\* the token that starts at place i is a '&' or '|' with no twin after it
LoneAt(i) ==
  /\ input[i] \in DOMAIN PairTokens
  /\ i = Len(input) \/ input[i + 1] # input[i]

\* C5: a lone '&' or '|', followed by another rune or by the end of input,
\* never lexes: NextToken reports an error for it and Run returns a lex
\* error instead of a token list.
LoneAmpersandRejected ==
  (last.started /\ LoneAt(last.start)) =>
     /\ last.err # ""
     /\ pc = "returned"
     /\ runErr # ""
     /\ tokens = <<>>

\* C6: a lex error is terminal: when nextToken fails after the first rune of
\* a token (malformed or truncated character literal, lone '&'/'|', failed
\* read inside a token), NextToken and Run return the error, Run returns no
\* token list, and nothing after the error point is lexed.
LexErrorIsTerminal ==
  (last.started /\ last.lexErr # "") =>
     /\ last.err # ""
     /\ pc = "returned"
     /\ runErr # ""
     /\ tokens = <<>>

\* the '"' at place i has no closing '"' after it
UnterminatedAt(i) ==
  /\ input[i] = "\""
  /\ \A j \in i + 1 .. Len(input) : input[j] # "\""

\* C7: an unterminated string literal is a lex error: lexing one reports an
\* error, yields no Stringval token and appends nothing to the constants.
UnterminatedStringRejected ==
  [][(tokens' # tokens /\ last'.started /\ UnterminatedAt(last'.start)) =>
       /\ last'.lexErr # ""
       /\ last'.token # "Stringval"
       /\ lexer'.constants = lexer.constants]_vars

\* the identifier texts lexed so far
IdTexts == {idSeen[i] : i \in 1 .. Len(idSeen)}

\* the number of distinct identifier texts lexed before t first was
FirstSeenRank(t) ==
  LET first == CHOOSE i \in 1 .. Len(idSeen) :
                 /\ idSeen[i] = t
                 /\ \A j \in 1 .. i - 1 : idSeen[j] # t
  IN Cardinality({idSeen[j] : j \in 1 .. first - 1})

\* the identifier table maps the n texts seen one-to-one onto 0 .. n-1 in
\* order of first occurrence, and SecondaryToken is the id of the last one
InternTable ==
  /\ DOMAIN lexer.identifiers = IdTexts
  /\ \A t \in IdTexts : lexer.identifiers[t] = FirstSeenRank(t)
  /\ {lexer.identifiers[t] : t \in IdTexts} = 0 .. Cardinality(IdTexts) - 1
  /\ \A t, u \in IdTexts :
       t # u => lexer.identifiers[t] # lexer.identifiers[u]
  /\ last.token = "ID" => lexer.SecondaryToken = lexer.identifiers[last.text]

\* C8: identifier interning is stable and injective: the table maps the n
\* distinct texts seen onto 0 .. n-1 in order of first occurrence, and lexing
\* a text seen before yields its existing id and leaves the table unchanged.
InterningStableInjective ==
  /\ []InternTable
  /\ [][(tokens' # tokens /\ last'.token = "ID"
           /\ last'.text \in DOMAIN lexer.identifiers) =>
          /\ lexer'.identifiers = lexer.identifiers
          /\ lexer'.SecondaryToken = lexer.identifiers[last'.text]]_vars

\* the same identifier text was lexed twice
IdentifierLexedTwice ==
  /\ Len(idSeen) = 2
  /\ idSeen[1] = idSeen[2]
  /\ last.token = "ID"
  /\ lexer.SecondaryToken = 0

\* a token list Run returned ends with EOF and holds EOF nowhere else
EndsWithOneEOF ==
  (pc = "returned" /\ runErr = "") =>
     /\ tokens # <<>>
     /\ tokens[Len(tokens)] = "EOF"
     /\ \A i \in 1 .. Len(tokens) - 1 : tokens[i] # "EOF"

\* the end of input met before a token started is the EOF token, no error
EndOfInputIsEOF ==
  (~last.started /\ last.lexErr = "EOF") => (last.token = "EOF" /\ last.err = "")

\* C9: Run terminates on every program: each NextToken call consumes a rune
\* or reports the end of input; a token list Run returns ends with EOF and
\* holds EOF nowhere else; the end of input met while skipping whitespace or
\* at the start of a token is the EOF token with no error.
RunTerminatesWithEOF ==
  /\ <>(pc = "returned")
  /\ []EndsWithOneEOF
  /\ []EndOfInputIsEOF
  /\ [][tokens' # tokens =>
          \/ Unread(lexer'.program) < Unread(lexer.program)
          \/ last'.token = "EOF"]_vars

\* Run returned several tokens, the last after skipping a newline
ReturnedAfterTrailingNewline ==
  /\ pc = "returned"
  /\ runErr = ""
  /\ Len(tokens) >= 3
  /\ lexer.Line >= 1
  /\ input[Len(input)] = "\n"
  /\ ~last.started

(***************************************************************************)
(* Properties of CheckTypes                                                *)
(***************************************************************************)
\* a is an alias whose chain of base types reaches x
RECURSIVE AliasChainReaches(_, _)
AliasChainReaches(a, x) ==
  /\ objs[a].Kind = KindAliasType
  /\ \/ objs[a].T.ref = x
     \/ AliasChainReaches(objs[a].T.ref, x)

\* C10: CheckTypes is reflexive, and an alias is equivalent, in both argument
\* orders, to every object its chain of base types reaches.
ReflexiveAliasTransparent ==
  /\ \A x \in 1 .. Len(objs) :
       /\ CheckTypes(x, x) = "true"
       /\ \A a \in 1 .. Len(objs) :
            AliasChainReaches(a, x) =>
              /\ CheckTypes(a, x) = "true"
              /\ CheckTypes(x, a) = "true"
  /\ (checked.result # "none" /\ checked.p1 = checked.p2) =>
       checked.result = "true"
  /\ (checked.result # "none" /\ AliasChainReaches(checked.p1, checked.p2)) =>
       checked.result = "true"
  /\ (checked.result # "none" /\ AliasChainReaches(checked.p2, checked.p1)) =>
       checked.result = "true"

\* int was checked against an alias of an alias of int
IntCheckedAgainstAliasOfAlias ==
  /\ checked.result = "true"
  /\ checked.p1 = pIntObj
  /\ objs[checked.p2].Kind = KindAliasType
  /\ objs[objs[checked.p2].T.ref].Kind = KindAliasType
  /\ objs[objs[checked.p2].T.ref].T.ref = pIntObj

\* a call was made and returned or panicked
Checked == checked.result # "none"

KindOf(p) == objs[p].Kind

\* p is neither the universal object nor of kind universal
NotUniversal(p) == p # pUniversalObj /\ KindOf(p) # KindUniversal

\* C11: for two array types CheckTypes completes, and returns true iff the
\* element counts are equal and the element types are equivalent.
ArraysEquivalentIff ==
  (/\ Checked
   /\ KindOf(checked.p1) = KindArrayType
   /\ KindOf(checked.p2) = KindArrayType) =>
    /\ checked.result \in {"true", "false"}
    /\ checked.result = "true" <=>
         /\ objs[checked.p1].T.NumElements = objs[checked.p2].T.NumElements
         /\ CheckTypes(objs[checked.p1].T.ref, objs[checked.p2].T.ref) = "true"

\* C12: two distinct struct types are never equivalent, whatever their field
\* chains, and neither are two distinct scalar types other than universal.
DistinctStructsAndScalarsDiffer ==
  (/\ Checked
   /\ checked.p1 # checked.p2
   /\ NotUniversal(checked.p1)
   /\ NotUniversal(checked.p2)
   /\ \/ KindOf(checked.p1) = KindStructType /\ KindOf(checked.p2) = KindStructType
      \/ KindOf(checked.p1) = KindScalarType /\ KindOf(checked.p2) = KindScalarType) =>
    checked.result = "false"

\* two distinct structs that share one field chain were checked
StructsSharingFieldsChecked ==
  /\ checked.result = "false"
  /\ checked.p1 # checked.p2
  /\ KindOf(checked.p1) = KindStructType
  /\ KindOf(checked.p2) = KindStructType
  /\ objs[checked.p1].T.ref # nil
  /\ objs[checked.p1].T.ref = objs[checked.p2].T.ref

\* C15: two distinct objects of different kinds, neither an alias nor
\* universal, are not equivalent: CheckTypes completes and returns false.
DifferentKindsNotEquivalent ==
  (/\ Checked
   /\ checked.p1 # checked.p2
   /\ NotUniversal(checked.p1)
   /\ NotUniversal(checked.p2)
   /\ KindOf(checked.p1) # KindAliasType
   /\ KindOf(checked.p2) # KindAliasType
   /\ KindOf(checked.p1) # KindOf(checked.p2)) =>
    checked.result = "false"

TypeKinds == {KindScalarType, KindAliasType, KindArrayType, KindStructType}

\* p and all it refers to are scalars, aliases, arrays and structs
RECURSIVE BuiltFromTypes(_)
BuiltFromTypes(p) ==
  /\ KindOf(p) \in TypeKinds
  /\ objs[p].T.tag \in {"Alias", "Array"} => BuiltFromTypes(objs[p].T.ref)

\* C20: CheckTypes is symmetric: on two types both argument orders complete
\* and return the same boolean.
CheckTypesSymmetric ==
  (/\ Checked
   /\ BuiltFromTypes(checked.p1)
   /\ BuiltFromTypes(checked.p2)) =>
    /\ checked.result \in {"true", "false"}
    /\ CheckTypes(checked.p2, checked.p1) = checked.result

\* the longest run of runes of S in the input from place i on
RECURSIVE RunOf(_, _)
RunOf(i, S) ==
  IF i > Len(input) \/ input[i] \notin S THEN <<>>
  ELSE <<input[i]>> \o RunOf(i + 1, S)

LiteralTokens == {"Numeral", "Stringval", "Character"}

\* the literal tokens lexed so far, in order
Literals == SelectSeq(history, LAMBDA h : h.token \in LiteralTokens)

\* the constant the Lexer now gives for the index literal token h carried
\* is the value written in the input where h began
DenotesItsValue(h) ==
  /\ h.index + 1 \in DOMAIN lexer.constants
  /\ h.token = "Numeral" =>
       GetNumeralConstant(lexer, h.index) = Atoi(RunOf(h.start, DigitRunes))
  /\ h.token = "Stringval" =>
       GetStringConstant(lexer, h.index) = RunOf(h.start + 1, StringRunes)
  /\ h.token = "Character" =>
       GetRuneConstant(lexer, h.index) = input[h.start + 1]

IsPrefix(s, t) == Len(s) <= Len(t) /\ s = SubSeq(t, 1, Len(s))

Rest(b) == SubSeq(b.buf, b.off + 1, Len(b.buf))

\* the input from place i on
InputFrom(i) == SubSeq(input, i, Len(input))

\* the word a token beginning with a letter at place i must span
WordAt(i) == RunOf(i, WordRunes)

\* C14: a NextToken call that meets a letter yields one token for the longest
\* run of letters, digits and underscores: the keyword token of a reserved
\* word, leaving the identifier table as it was, else ID; the rune that ended
\* the run is left unread.
MaximalMunchWithKeywords ==
  [][(last'.started /\ isAlpha(input[last'.start])) =>
       /\ last'.lexErr = ""
       /\ last'.text = WordAt(last'.start)
       /\ tokens' = Append(tokens, last'.token)
       /\ last'.token = IF WordAt(last'.start) \in DOMAIN ReservedWordTokens
                          THEN ReservedWordTokens[WordAt(last'.start)]
                          ELSE "ID"
       /\ WordAt(last'.start) \in DOMAIN ReservedWordTokens =>
            lexer'.identifiers = lexer.identifiers
       /\ Rest(lexer'.program) =
            InputFrom(last'.start + Len(WordAt(last'.start)))]_vars

\* the keyword var was lexed, then the = that ended it, then the end
KeywordThenEqualsLexed ==
  /\ pc = "returned"
  /\ tokens = <<"Var", "Equals", "EOF">>
  /\ DOMAIN lexer.identifiers = {}

\* the token and the unread runes a call that met the operator at place i
\* must leave: the compound form and what follows it, or the single form
\* and what follows the operator
LookaheadOutcome(i) ==
  IF i < Len(input) /\ input[i + 1] = LookaheadTokens[input[i]][1]
    THEN [token |-> LookaheadTokens[input[i]][3], rest |-> InputFrom(i + 2)]
    ELSE [token |-> LookaheadTokens[input[i]][2], rest |-> InputFrom(i + 1)]

\* C16: on = < > ! + - the next rune is looked at: the compound token takes
\* both runes; otherwise the single token is yielded without error and the
\* next rune stays unread, a newline among them counted in Line once; at the
\* end of input the single token is followed by EOF.
LookaheadWithPushback ==
  /\ [][(last'.started /\ input[last'.start] \in DOMAIN LookaheadTokens) =>
          /\ last'.lexErr = ""
          /\ last'.token = LookaheadOutcome(last'.start).token
          /\ tokens' = Append(tokens, last'.token)
          /\ Rest(lexer'.program) = LookaheadOutcome(last'.start).rest]_vars
  /\ [](lexer.Line = NewLexer(input).Line + skipped)
  /\ []((/\ pc = "returned"
         /\ history # <<>>
         /\ history[Len(history)].start = Len(input)
         /\ input[Len(input)] \in DOMAIN LookaheadTokens) =>
          /\ runErr = ""
          /\ Len(tokens) >= 2
          /\ tokens[Len(tokens)] = "EOF"
          /\ tokens[Len(tokens) - 1] = LookaheadTokens[input[Len(input)]][2])

\* < was lexed with a newline pushed back, then + at the end of the input
LessNewlinePlusLexed ==
  /\ pc = "returned"
  /\ input = <<"<", "\n", "+">>
  /\ tokens = <<"LessThan", "Plus", "EOF">>
  /\ lexer.Line = NewLexer(input).Line + 1

\* the literals of the kind of the i-th literal lexed before it
SameKindBefore(i) ==
  Cardinality({j \in 1 .. i - 1 : Literals[j].token = Literals[i].token})

\* C18: each kind of literal has its own sequence: the index a literal token
\* carries is the number of literals of its own kind lexed before it.
IndexCountsOwnKind ==
  \A i \in 1 .. Len(Literals) : Literals[i].index = SameKindBefore(i)

\* the Constant.Type of the entry a literal token appends
TypeOfToken(token) ==
  CASE token = "Numeral" -> "Numeral"
    [] token = "Stringval" -> "String"
    [] token = "Character" -> "Character"

\* C18, as amended: the three kinds of literal share one sequence, appended
\* to only: the index a literal token carries is the number of literals of
\* any kind lexed before it, and the entry there is of the token's kind.
IndexCountsAllLiterals ==
  /\ [](/\ Len(lexer.constants) = Len(Literals)
         /\ \A i \in 1 .. Len(Literals) :
              /\ Literals[i].index = i - 1
              /\ lexer.constants[i].Type = TypeOfToken(Literals[i].token))
  /\ [][Len(lexer'.constants) >= Len(lexer.constants)
          /\ \A i \in DOMAIN lexer.constants :
               lexer'.constants[i] = lexer.constants[i]]_vars

\* an empty string, then a numeral were lexed
StringThenNumeralLexed ==
  /\ Len(Literals) = 2
  /\ Literals[1].token = "Stringval"
  /\ Literals[2].token = "Numeral"
  /\ Literals[2].index = 1

\* C19: Line is 1 on a new Lexer and is always 1 plus the number of newlines
\* skipped as whitespace.
LineIsOneBased == lexer.Line = 1 + skipped

\* the live symbols named n that were defined at level l
SymbolsAt(l, n) == {o \in Live : defLevel[o] = l /\ heap[o].Name = n}

\* the latest of a set of symbols: addresses grow with each DefineSymbol
Latest(S) == CHOOSE o \in S : \A p \in S : p <= o

\* the live symbols named n of the levels strictly below the current one
SymbolsBelow(n) == {o \in Live : defLevel[o] < level /\ heap[o].Name = n}

\* of a set of symbols, the latest one of the highest level
NearestLatest(S) ==
  CHOOSE o \in S :
    \A p \in S : \/ defLevel[p] < defLevel[o]
                 \/ defLevel[p] = defLevel[o] /\ p <= o

ExpectedLocal(n) ==
  IF SymbolsAt(level, n) = {} THEN nil ELSE Latest(SymbolsAt(level, n))

ExpectedGlobal(n) ==
  IF SymbolsBelow(n) = {} THEN nil ELSE NearestLatest(SymbolsBelow(n))

\* C17: SearchLocalSymbol gives the latest symbol of that name in the current
\* level only; SearchGlobalSymbol gives the latest one in the nearest level
\* strictly below that has the name, never one of the current level;
\* DefineSymbol links the new symbol in front of the chain it found, which
\* stays whole behind it.
ResolutionOrder ==
  /\ [](/\ \A n \in Names :
            /\ SearchLocalSymbol(n) = ExpectedLocal(n)
            /\ SearchGlobalSymbol(n) = ExpectedGlobal(n)
         /\ (ret.op = "SearchLocalSymbol" => ret.val = ExpectedLocal(ret.arg))
         /\ (ret.op = "SearchGlobalSymbol" => ret.val = ExpectedGlobal(ret.arg)))
  /\ [][Len(heap') > Len(heap) =>
          /\ heap' = Append(heap, heap'[Len(heap')])
          /\ heap'[Len(heap')].Next = symbolTable[level]
          /\ \A n \in Names :
               SymbolsAt(level, n) \subseteq
                 {o \in 1 .. Len(heap') :
                    defLevel'[o] = level' /\ heap'[o].Name = n /\ o \notin discarded'}
          /\ \A n \in Names \ {heap'[Len(heap')].Name} :
               SearchLocalSymbol(n)' = SearchLocalSymbol(n)]_vars

\* a name defined in the enclosing level and twice in the current one: the
\* local search returned the newest, the older ones are behind it
ShadowedTwiceSearched ==
  /\ level = 1
  /\ Len(heap) = 3
  /\ defLevel = <<0, 1, 1>>
  /\ heap[1].Name = heap[2].Name
  /\ heap[2].Name = heap[3].Name
  /\ ret = Returned("SearchLocalSymbol", heap[3].Name, 3)
  /\ heap[3].Next = 2
  /\ SearchGlobalSymbol(heap[3].Name) = 1

====
